---- MODULE Spec2Model ----
(***************************************************************************)
(* A model of do_backup.py: one run of _main_inter (destination-root       *)
(* gates, retention sweep, link-chain resolution, include/exclude lists,   *)
(* the call of _do_actual_backup) and the spawned copy-engine process      *)
(* with its two output pipes; _del_rw, the error handler of the sweep's    *)
(* rmtree; repeated runs in one process; and main around _main_inter.      *)
(*                                                                         *)
(* Time is counted in whole hours.  A path string is the sequence of its   *)
(* components after the leading "/" ("/" is << >>, "/." is <<".">>).  A    *)
(* naming template is [prefix, tokens]; a directory name is                *)
(* [prefix, day, hour] with hour = -1 when the template has no %H.         *)
(***************************************************************************)
EXTENDS Integers, Sequences, FiniteSets, TLC

VARIABLES
    args,           \* the argparse.Namespace handed to _main_inter
    today,          \* datetime.today() of the run, in hours
    fs,             \* the directories on the way to base_dir: path -> [kind, writable]
    dirs,           \* names of the directories inside base_dir
    files,          \* names of the non-directory files inside base_dir
    pc,             \* position of the control thread
    first_index,    \* arguments of the pending _remove_old_backups_if_exist call
    last_index,
    dest_dir_path,  \* locals of _main_inter
    link_dir_path,
    included_dirs,
    excluded_dirs,
    default_included,  \* the module-level list _DEFAULT_INCLUDED_DIR
    default_excluded,  \* the module-level list _DEFAULT_EXCLUDED_DIR
    exc,            \* the exception in flight, or NoExc
    result,         \* what _main_inter returned: "None" until it returns
    cmd,            \* the command line handed to Popen
    child,          \* the copy-engine process
    stdout_pipe,    \* lines written by the child and not yet read
    stderr_pipe,
    stdout_thread,  \* the drain threads of _do_actual_backup
    stderr_thread,
    exit_code,      \* the value _do_actual_backup returned
    log,            \* messages the logger received, in order
    removed,        \* history: names removed by this run's sweep
    trace,          \* history: the steps of the run, in order
    os_env,         \* the process: [euid, py_lt_32] (os.geteuid, sys.version_info)
    os_stat,        \* os.stat of the ancestors of a failed path: path -> [st_uid, st_mode]
    del_rw          \* the frame of the pending _del_rw call, with its history

vars == <<args, today, fs, dirs, files, pc, first_index, last_index,
          dest_dir_path, link_dir_path, included_dirs, excluded_dirs,
          default_included, default_excluded, exc, result, cmd, child,
          stdout_pipe, stderr_pipe, stdout_thread, stderr_thread, exit_code,
          log, removed, trace, os_env, os_stat, del_rw>>

----------------------------------------------------------------------------
(* Bounds of the model *)

MaxThreshold == 2
MaxHorizon == 5
MaxLines == 2
PipeCapacity == 1
MaxDepth == 2
MaxRuns == 2

(* Program constants *)

_DEFAULT_REMOVAL_SEARCH_THRESHOLD == 100
HoursPerDay == 24

_DEFAULT_DIR_FORMAT == [prefix |-> "{hostname}-", tokens |-> "%Y%m%d"]
_DEFAULT_DIR_FORMAT_HOURLY == [prefix |-> "{hostname}-", tokens |-> "%Y%m%d-%H"]
_DEFAULT_INCLUDED_DIR == << >>
_DEFAULT_EXCLUDED_DIR ==
    <<"/dev", "/proc", "/sys", "/tmp", "/mnt", "/media", "/root", "/run",
      "/lost+found", "/var/lock", "/var/tmp", "/var/run", "/backup">>

(* Python values *)

None == [tag |-> "None"]
Unbound == [tag |-> "unbound"]
NoExc == "NoExc"

----------------------------------------------------------------------------
(* os.path and the filesystem *)

Root == << >>

normpath(p) == SelectSeq(p, LAMBDA c : c # "." /\ c # "")

dirname(p) == IF Len(p) = 0 THEN p ELSE SubSeq(p, 1, Len(p) - 1)

FsKind(p) == fs[normpath(p)].kind

exists(p) == FsKind(p) # "absent"

isdir(p) == FsKind(p) = "dir"

access_W_OK(p) == exists(p) /\ fs[normpath(p)].writable

----------------------------------------------------------------------------
(* DirectoryAddressor *)

timedelta(i, hourly) == IF hourly THEN i ELSE i * HoursPerDay

format_hostname(prefix) == IF prefix = "{hostname}-" THEN "node-" ELSE prefix

has_hour_token(dir_format) == dir_format.tokens \in {"%Y%m%d-%H", "%H"}

strftime(thatday, tokens) ==
    CASE tokens = "%Y%m%d"    -> [day |-> thatday \div HoursPerDay, hour |-> -1]
      [] tokens = "%Y%m%d-%H" -> [day |-> thatday \div HoursPerDay,
                                  hour |-> thatday % HoursPerDay]
      [] tokens = "%H"        -> [day |-> -1, hour |-> thatday % HoursPerDay]
      [] OTHER                -> [day |-> -1, hour |-> -1]

_get_backup_dir_name(thatday, dir_format) ==
    LET t == strftime(thatday, dir_format.tokens)
    IN  [prefix |-> format_hostname(dir_format.prefix),
         day |-> t.day, hour |-> t.hour]

_get_backup_dir_path(thatday, base_dir, dir_format) ==
    [base |-> base_dir, name |-> _get_backup_dir_name(thatday, dir_format)]

(* Mutant of path_isdir: os.path.exists, true of a stray file as well. *)
path_exists_any(p) == isdir(p.base) /\ p.name \in dirs \cup files

(* os.path.isdir of a path inside base_dir *)
path_isdir(p) == isdir(p.base) /\ p.name \in dirs

----------------------------------------------------------------------------
(* RetentionSweeper.  st is [dirs, removed, log, raised]; rmtree raises at  *)
(* offset fail_at (the error _del_rw re-raised) and removes the directory   *)
(* at any other offset.                                                     *)

(* The body of the loop of _remove_old_backups_if_exist, for offset i. *)
remove_old_backup(today_, base_dir, dir_format, i, hourly, st, fail_at) ==
    LET thatday  == today_ - timedelta(i, hourly)
        dir_path == _get_backup_dir_path(thatday, base_dir, dir_format)
        name     == dir_path.name
    IN  IF st.raised THEN st
        ELSE IF name \in st.dirs \cup files
        THEN IF name \notin st.dirs
             THEN [st EXCEPT !.log = Append(@, [level |-> "warn",
                                  msg |-> "is not a directory. Ignoring.",
                                  what |-> name])]
             ELSE IF i = fail_at
                  THEN [st EXCEPT !.raised = TRUE]
                  ELSE [st EXCEPT !.dirs = @ \ {name},
                                  !.removed = @ \cup {name}]
        ELSE st

(* Mutant of _remove_old_backups_if_exist: range(first_index, last_index),  *)
(* which leaves out the horizon itself.                                     *)
RECURSIVE sweep_without_last(_, _, _, _, _, _, _, _)
sweep_without_last(today_, base_dir, dir_format, first, last, hourly, st, fail_at) ==
    IF first >= last THEN st
    ELSE LET done == remove_old_backup(today_, base_dir, dir_format, first,
                                       hourly, st, fail_at)
         IN  IF done.raised THEN done
             ELSE sweep_without_last(today_, base_dir, dir_format, first + 1,
                                     last, hourly, done, fail_at)

(* for i in range(first_index, last_index + 1): the body is applied to the  *)
(* offsets in increasing order (the range is split in two halves, the       *)
(* lower half first).                                                       *)
RECURSIVE _remove_old_backups_if_exist(_, _, _, _, _, _, _, _)
_remove_old_backups_if_exist(today_, base_dir, dir_format, first, last, hourly, st, fail_at) ==
    IF first > last THEN st
    ELSE IF first = last
    THEN remove_old_backup(today_, base_dir, dir_format, first, hourly, st, fail_at)
    ELSE LET mid  == (first + last) \div 2
             done == _remove_old_backups_if_exist(today_, base_dir, dir_format,
                                                  first, mid, hourly, st, fail_at)
         IN  IF done.raised THEN done
             ELSE _remove_old_backups_if_exist(today_, base_dir, dir_format,
                                               mid + 1, last, hourly, done, fail_at)

(* LinkChainResolver: for i in range(first_index, last_index + 1), with the *)
(* return at the first directory found.                                     *)
RECURSIVE _find_link_dir(_, _, _, _, _, _)
_find_link_dir(today_, base_dir, dir_format, first, last, is_hourly_backup) ==
    IF first > last THEN None
    ELSE
      LET thatday  == today_ - timedelta(first, is_hourly_backup)
          dir_path == _get_backup_dir_path(thatday, base_dir, dir_format)
      IN  IF path_isdir(dir_path)
          THEN dir_path
          ELSE _find_link_dir(today_, base_dir, dir_format, first + 1, last,
                              is_hourly_backup)

----------------------------------------------------------------------------
(* The run of _main_inter *)

Logged(level, msg, what) == Append(log, [level |-> level, msg |-> msg, what |-> what])

(* Mutant of NextStep: link resolution ahead of the retention sweep. *)
LinkBeforeSweep(step) ==
    CASE step = "dest"  -> "link"
      [] step = "link"  -> "sweep"
      [] step = "sweep" -> "lists"
      [] step = "lists" -> "backup"

(* The order of the steps of _main_inter after the destination-root gates. *)
NextStep(step) ==
    CASE step = "dest"  -> "sweep"
      [] step = "sweep" -> "link"
      [] step = "link"  -> "lists"
      [] step = "lists" -> "backup"

Return(value) ==
    /\ result' = value
    /\ pc' = "returned"

(* Mutant of hourly_dir_format: the template is left as supplied. *)
dir_format_as_supplied(hourly, dir_format) == dir_format

(* Lines 354-358: the template after the hourly switch. *)
hourly_dir_format(hourly, dir_format) ==
    IF hourly /\ dir_format = _DEFAULT_DIR_FORMAT
    THEN _DEFAULT_DIR_FORMAT_HOURLY
    ELSE dir_format

HourlyDirFormat ==
    /\ pc = "start"
    /\ pc' = "base_dir"
    /\ args' = [args EXCEPT !.dir_format = hourly_dir_format(args.hourly, @)]
    /\ log' = IF /\ args.hourly
                 /\ args.dir_format # _DEFAULT_DIR_FORMAT
                 /\ ~has_hour_token(args.dir_format)
              THEN Logged("warn", "dir_format does not contain %H", args.dir_format)
              ELSE log
    /\ UNCHANGED <<os_env, os_stat, del_rw>>
    /\ UNCHANGED <<today, fs, dirs, files, first_index, last_index,
                   dest_dir_path, link_dir_path, included_dirs, excluded_dirs,
                   default_included, default_excluded, exc, result, cmd, child,
                   stdout_pipe, stderr_pipe, stdout_thread, stderr_thread,
                   exit_code, removed, trace>>

CheckBaseDir ==
    /\ pc = "base_dir"
    /\ LET org_base_dir  == args.base_dir
           norm_base_dir == normpath(args.base_dir)
           parent_dir    == dirname(norm_base_dir)
       IN  IF args.base_dir = Root
           THEN /\ Return("False")
                /\ log' = Logged("error", "base-dir looks root to me", org_base_dir)
                /\ UNCHANGED <<fs, exc, trace>>
           ELSE IF exists(norm_base_dir)
           THEN IF ~isdir(norm_base_dir)
                THEN /\ Return("False")
                     /\ log' = Logged("error", "is not a directory", org_base_dir)
                     /\ UNCHANGED <<fs, exc, trace>>
                ELSE /\ pc' = "dest"
                     /\ log' = IF ~access_W_OK(norm_base_dir)
                               THEN Logged("error", "is not writable", org_base_dir)
                               ELSE log
                     /\ UNCHANGED <<fs, exc, result, trace>>
           ELSE IF ~exists(parent_dir) \/ ~isdir(parent_dir)
           THEN /\ Return("False")
                /\ log' = Logged("error", "Parent dir is not accessible", parent_dir)
                /\ UNCHANGED <<fs, exc, trace>>
           ELSE IF access_W_OK(parent_dir)
           THEN /\ fs' = [fs EXCEPT ![norm_base_dir] =
                                        [kind |-> "dir", writable |-> TRUE]]
                /\ pc' = "dest"
                /\ trace' = Append(trace, "mkdir")
                /\ UNCHANGED <<log, exc, result>>
           ELSE /\ exc' = "OSError"
                /\ pc' = "raised"
                /\ UNCHANGED <<fs, log, result, trace>>
    /\ UNCHANGED <<os_env, os_stat, del_rw>>
    /\ UNCHANGED <<args, today, dirs, files, first_index, last_index,
                   dest_dir_path, link_dir_path, included_dirs, excluded_dirs,
                   default_included, default_excluded, cmd, child,
                   stdout_pipe, stderr_pipe, stdout_thread, stderr_thread,
                   exit_code, removed>>

ComputeDest ==
    /\ pc = "dest"
    /\ dest_dir_path' = _get_backup_dir_path(today, args.base_dir, args.dir_format)
    /\ pc' = NextStep("dest")
    /\ UNCHANGED <<os_env, os_stat, del_rw>>
    /\ UNCHANGED <<args, today, fs, dirs, files, first_index, last_index,
                   link_dir_path, included_dirs, excluded_dirs,
                   default_included, default_excluded, exc, result, cmd, child,
                   stdout_pipe, stderr_pipe, stdout_thread, stderr_thread,
                   exit_code, log, removed, trace>>

(* One call of _remove_old_backups_if_exist(first, last), then on to goto. *)
Sweep(first, last, goto) ==
    \E fail_at \in {-1} \cup {i \in first..last :
           _get_backup_dir_name(today - timedelta(i, args.hourly), args.dir_format)
               \in dirs} :
      LET st == _remove_old_backups_if_exist(
                    today, args.base_dir, args.dir_format, first, last,
                    args.hourly,
                    [dirs |-> dirs, removed |-> removed, log |-> log,
                     raised |-> FALSE],
                    fail_at)
      IN  /\ dirs' = st.dirs
          /\ removed' = st.removed
          /\ log' = st.log
          /\ trace' = Append(trace, "sweep")
          /\ IF st.raised
             THEN exc' = "PermissionError" /\ pc' = "raised"
             ELSE exc' = exc /\ pc' = goto

RemoveOldBackups ==
    /\ pc = "sweep"
    /\ IF args.removal_threshold > 0
       THEN /\ first_index' = args.removal_threshold + 1
            /\ last_index' = _DEFAULT_REMOVAL_SEARCH_THRESHOLD
            /\ Sweep(args.removal_threshold + 1,
                     _DEFAULT_REMOVAL_SEARCH_THRESHOLD, NextStep("sweep"))
       ELSE /\ pc' = NextStep("sweep")
            /\ UNCHANGED <<first_index, last_index, dirs, removed, log, trace, exc>>
    /\ UNCHANGED <<os_env, os_stat, del_rw>>
    /\ UNCHANGED <<args, today, fs, files, dest_dir_path, link_dir_path,
                   included_dirs, excluded_dirs, default_included,
                   default_excluded, result, cmd, child, stdout_pipe,
                   stderr_pipe, stdout_thread, stderr_thread, exit_code>>

FindLinkDir ==
    /\ pc = "link"
    /\ IF args.force_full_backup
       THEN UNCHANGED <<link_dir_path, trace>>
       ELSE /\ link_dir_path' = _find_link_dir(today, args.base_dir, args.dir_format,
                                               1, args.removal_threshold, args.hourly)
            /\ trace' = Append(trace, "link")
    /\ pc' = NextStep("link")
    /\ UNCHANGED <<os_env, os_stat, del_rw>>
    /\ UNCHANGED <<args, today, fs, dirs, files, first_index, last_index,
                   dest_dir_path, included_dirs, excluded_dirs,
                   default_included, default_excluded, exc, result, cmd, child,
                   stdout_pipe, stderr_pipe, stdout_thread, stderr_thread,
                   exit_code, log, removed>>

(* included_dirs and excluded_dirs are the module-level lists themselves:   *)
(* extend() changes them in place.                                          *)
MergeLists ==
    /\ pc = "lists"
    /\ default_included' = IF args.include # << >>
                           THEN default_included \o args.include
                           ELSE default_included
    /\ included_dirs' = default_included'
    /\ default_excluded' = IF args.exclude # << >>
                           THEN default_excluded \o args.exclude
                           ELSE default_excluded
    /\ excluded_dirs' = default_excluded'
    /\ pc' = NextStep("lists")
    /\ UNCHANGED <<os_env, os_stat, del_rw>>
    /\ UNCHANGED <<args, today, fs, dirs, files, first_index, last_index,
                   dest_dir_path, link_dir_path, exc, result, cmd, child,
                   stdout_pipe, stderr_pipe, stdout_thread, stderr_thread,
                   exit_code, log, removed, trace>>

----------------------------------------------------------------------------
(* CopyProcessRunner: _do_actual_backup and the spawned process *)

ExitCodes == {0, 1, 23}

NoChild == [state |-> "none", todo_out |-> 0, todo_err |-> 0, code |-> -1,
            nout |-> 0, nerr |-> 0]

(* args[0]: argparse.Namespace defines no __getitem__, so subscripting it   *)
(* raises TypeError whatever the key.                                       *)
Namespace_getitem(namespace, key) == "TypeError"

(* exit_code not in [0, 23] *)
acceptable(code) == code \in {0, 23}

(* Mutant of identity_exists: the existence test of line 310 left out. *)
identity_unchecked(identity_file) == TRUE

(* os.path.exists(args.identity_file): the configured file is "present" or  *)
(* "missing".                                                               *)
identity_exists(identity_file) == identity_file = "present"

(* Line 436 evaluates link_dir_path, which has no binding when the forced   *)
(* full backup skipped its assignment; then lines 291-325 of the callee.    *)
CallBackup ==
    /\ pc = "backup"
    /\ IF link_dir_path = Unbound
       THEN /\ exc' = "UnboundLocalError"
            /\ pc' = "raised"
            /\ cmd' = cmd
       ELSE IF args.identity_file # "None" /\ ~identity_exists(args.identity_file)
       THEN /\ exc' = "RuntimeError"
            /\ pc' = "raised"
            /\ cmd' = cmd
       ELSE /\ cmd' = [link_dest |-> link_dir_path,
                       include |-> included_dirs,
                       exclude |-> excluded_dirs,
                       identity |-> args.identity_file,
                       dest |-> dest_dir_path]
            /\ pc' = "popen"
            /\ exc' = exc
    /\ UNCHANGED <<os_env, os_stat, del_rw>>
    /\ UNCHANGED <<args, today, fs, dirs, files, first_index, last_index,
                   dest_dir_path, link_dir_path, included_dirs, excluded_dirs,
                   default_included, default_excluded, result, child,
                   stdout_pipe, stderr_pipe, stdout_thread, stderr_thread,
                   exit_code, log, removed, trace>>

(* subprocess.Popen inside the try block: the process starts, or Popen      *)
(* raises OSError (the command cannot be executed).                         *)
Popen ==
    /\ pc = "popen"
    /\ \E started \in BOOLEAN, n \in 0..MaxLines, m \in 0..MaxLines :
         IF started
         THEN /\ child' = [state |-> "running", todo_out |-> n, todo_err |-> m,
                           code |-> -1, nout |-> 0, nerr |-> 0]
              /\ trace' = Append(trace, "spawn")
              /\ pc' = "thread_args"
              /\ exc' = exc
         ELSE /\ n = 0 /\ m = 0
              /\ exc' = "OSError"
              /\ pc' = "finally"
              /\ UNCHANGED <<child, trace>>
    /\ UNCHANGED <<os_env, os_stat, del_rw>>
    /\ UNCHANGED <<args, today, fs, dirs, files, first_index, last_index,
                   dest_dir_path, link_dir_path, included_dirs, excluded_dirs,
                   default_included, default_excluded, result, cmd,
                   stdout_pipe, stderr_pipe, stdout_thread, stderr_thread,
                   exit_code, log, removed>>

(* Lines 334-343.  Building stdout_args evaluates args[0] and raises; the   *)
(* thread objects are never created, so stdout_thread and stderr_thread     *)
(* keep None and p.wait() is not reached.                                   *)
StartThreads ==
    /\ pc = "thread_args"
    /\ IF Namespace_getitem(args, 0) = "TypeError"
       THEN /\ exc' = "TypeError"
            /\ pc' = "finally"
            /\ UNCHANGED <<stdout_thread, stderr_thread>>
       ELSE /\ stdout_thread' = "started"
            /\ stderr_thread' = "started"
            /\ pc' = "wait"
            /\ exc' = exc
    /\ UNCHANGED <<os_env, os_stat, del_rw>>
    /\ UNCHANGED <<args, today, fs, dirs, files, first_index, last_index,
                   dest_dir_path, link_dir_path, included_dirs, excluded_dirs,
                   default_included, default_excluded, result, cmd, child,
                   stdout_pipe, stderr_pipe, exit_code, log, removed, trace>>

(* _log_thread, one step of the loop over file_in.readline: a line is read  *)
(* from the pipe and logged at debug level behind the stream's prefix; the  *)
(* loop ends at end-of-stream, once the child has exited and the pipe is    *)
(* empty.  A thread takes steps only once started.                          *)
_log_thread_stdout ==
    /\ stdout_thread = "started"
    /\ IF stdout_pipe # << >>
       THEN /\ log' = Logged("debug", "(stdout): ", Head(stdout_pipe))
            /\ stdout_pipe' = Tail(stdout_pipe)
            /\ UNCHANGED stdout_thread
       ELSE /\ child.state = "exited"
            /\ stdout_thread' = "finished"
            /\ UNCHANGED <<log, stdout_pipe>>
    /\ UNCHANGED <<os_env, os_stat, del_rw>>
    /\ UNCHANGED <<args, today, fs, dirs, files, pc, first_index, last_index,
                   dest_dir_path, link_dir_path, included_dirs, excluded_dirs,
                   default_included, default_excluded, exc, result, cmd, child,
                   stderr_pipe, stderr_thread, exit_code, removed, trace>>

_log_thread_stderr ==
    /\ stderr_thread = "started"
    /\ IF stderr_pipe # << >>
       THEN /\ log' = Logged("debug", "(stderr): ", Head(stderr_pipe))
            /\ stderr_pipe' = Tail(stderr_pipe)
            /\ UNCHANGED stderr_thread
       ELSE /\ child.state = "exited"
            /\ stderr_thread' = "finished"
            /\ UNCHANGED <<log, stderr_pipe>>
    /\ UNCHANGED <<os_env, os_stat, del_rw>>
    /\ UNCHANGED <<args, today, fs, dirs, files, pc, first_index, last_index,
                   dest_dir_path, link_dir_path, included_dirs, excluded_dirs,
                   default_included, default_excluded, exc, result, cmd, child,
                   stdout_pipe, stdout_thread, exit_code, removed, trace>>

(* p.wait() and return p.returncode (lines 340-343). *)
Wait ==
    /\ pc = "wait"
    /\ child.state = "exited"
    /\ exit_code' = child.code
    /\ pc' = "finally"
    /\ UNCHANGED <<os_env, os_stat, del_rw>>
    /\ UNCHANGED <<args, today, fs, dirs, files, first_index, last_index,
                   dest_dir_path, link_dir_path, included_dirs, excluded_dirs,
                   default_included, default_excluded, exc, result, cmd, child,
                   stdout_pipe, stderr_pipe, stdout_thread, stderr_thread,
                   log, removed, trace>>

(* No reachable state has a started thread or the control thread at        *)
(* p.wait(): StartThreads always raises.  These steps are therefore not    *)
(* part of the next-state relations below.                                 *)
DrainAndWait == _log_thread_stdout \/ _log_thread_stderr \/ Wait

(* The finally block (joins only the threads that exist), then the return   *)
(* into _main_inter: the exception propagates, or lines 445-449 decide.     *)
Finally ==
    /\ pc = "finally"
    /\ stdout_thread \in {"None", "finished"}
    /\ stderr_thread \in {"None", "finished"}
    /\ IF exc # NoExc
       THEN /\ pc' = "raised"
            /\ UNCHANGED <<result, log>>
       ELSE /\ pc' = "returned"
            /\ result' = IF acceptable(exit_code) THEN "True" ELSE "False"
            /\ log' = IF acceptable(exit_code) THEN log
                      ELSE Logged("error", "Exit code of rsync is not acceptable",
                                  exit_code)
    /\ UNCHANGED <<os_env, os_stat, del_rw>>
    /\ UNCHANGED <<args, today, fs, dirs, files, first_index, last_index,
                   dest_dir_path, link_dir_path, included_dirs, excluded_dirs,
                   default_included, default_excluded, exc, cmd, child,
                   stdout_pipe, stderr_pipe, stdout_thread, stderr_thread,
                   exit_code, removed, trace>>

(* The copy engine: writes its lines to the two pipes in any interleaving,  *)
(* blocks on a full pipe, and exits with some code once everything is       *)
(* written.                                                                 *)
ChildWriteStdout ==
    /\ child.state = "running"
    /\ child.todo_out > 0
    /\ Len(stdout_pipe) < PipeCapacity
    /\ stdout_pipe' = Append(stdout_pipe, child.nout + 1)
    /\ child' = [child EXCEPT !.todo_out = @ - 1, !.nout = @ + 1]
    /\ UNCHANGED <<os_env, os_stat, del_rw>>
    /\ UNCHANGED <<args, today, fs, dirs, files, pc, first_index, last_index,
                   dest_dir_path, link_dir_path, included_dirs, excluded_dirs,
                   default_included, default_excluded, exc, result, cmd,
                   stderr_pipe, stdout_thread, stderr_thread, exit_code, log,
                   removed, trace>>

ChildWriteStderr ==
    /\ child.state = "running"
    /\ child.todo_err > 0
    /\ Len(stderr_pipe) < PipeCapacity
    /\ stderr_pipe' = Append(stderr_pipe, child.nerr + 1)
    /\ child' = [child EXCEPT !.todo_err = @ - 1, !.nerr = @ + 1]
    /\ UNCHANGED <<os_env, os_stat, del_rw>>
    /\ UNCHANGED <<args, today, fs, dirs, files, pc, first_index, last_index,
                   dest_dir_path, link_dir_path, included_dirs, excluded_dirs,
                   default_included, default_excluded, exc, result, cmd,
                   stdout_pipe, stdout_thread, stderr_thread, exit_code, log,
                   removed, trace>>

ChildExit ==
    /\ child.state = "running"
    /\ child.todo_out = 0
    /\ child.todo_err = 0
    /\ \E c \in ExitCodes : child' = [child EXCEPT !.state = "exited", !.code = c]
    /\ UNCHANGED <<os_env, os_stat, del_rw>>
    /\ UNCHANGED <<args, today, fs, dirs, files, pc, first_index, last_index,
                   dest_dir_path, link_dir_path, included_dirs, excluded_dirs,
                   default_included, default_excluded, exc, result, cmd,
                   stdout_pipe, stderr_pipe, stdout_thread, stderr_thread,
                   exit_code, log, removed, trace>>

----------------------------------------------------------------------------
(* PermissionRepair: _del_rw, the onerror handler of shutil.rmtree.         *)
(*                                                                          *)
(* A path string is here [absolute, comps]: "/mnt/f" is                     *)
(* [absolute |-> TRUE, comps |-> <<"mnt", "f">>], "backup/f" is             *)
(* [absolute |-> FALSE, comps |-> <<"backup", "f">>], "/" and "" are the    *)
(* two paths with no component.  exc_info[1] is [type, errno].              *)

EACCES == 13
ENOTEMPTY == 39

(* _is_permission_error.  Before Python 3.2 the test reads                  *)
(* isinstance(e, OSError) or (isinstance(e, IOError) and e.args[0] == 13):  *)
(* "and" binds tighter than "or".                                           *)
_is_permission_error(e) ==
    IF os_env.py_lt_32
    THEN e.type = "OSError" \/ (e.type = "IOError" /\ e.errno = EACCES)
    ELSE e.type = "PermissionError"

(* os.path.dirname of a path string: "/" and "" are their own dirname. *)
path_dirname(path) ==
    [path EXCEPT !.comps = IF Len(@) = 0 THEN @ ELSE SubSeq(@, 1, Len(@) - 1)]

SlashRoot == [absolute |-> TRUE, comps |-> << >>]

(* Search permission of the process on the directory itself. *)
traversable(comps) ==
    IF os_stat[comps].st_uid = os_env.euid
    THEN "S_IXUSR" \in os_stat[comps].st_mode
    ELSE "S_IXOTH" \in os_stat[comps].st_mode

(* os.access(cur_path, os.X_OK): always granted to the superuser on a       *)
(* directory; otherwise every directory on the way must be searchable.      *)
access_X_OK(cur_path) ==
    IF os_env.euid = "root" THEN TRUE
    ELSE \A k \in 1..Len(cur_path.comps) : traversable(SubSeq(cur_path.comps, 1, k))

(* Mutant of is_owner: the ownership test of line 215 left out. *)
owner_unchecked(cur_path) == TRUE

(* os.geteuid() == os.stat(cur_path).st_uid *)
is_owner(cur_path) == os_env.euid = os_stat[cur_path.comps].st_uid

(* os.chmod succeeds for the owner and for the superuser, and raises        *)
(* PermissionError (EPERM) for anyone else.                                 *)
chmod_permitted(cur_path) ==
    IF os_env.euid = "root" THEN TRUE
    ELSE os_env.euid = os_stat[cur_path.comps].st_uid

(* os.chmod(cur_path, os.stat(cur_path).st_mode | bit), when permitted. *)
chmod(stat_, cur_path, bit) ==
    [stat_ EXCEPT ![cur_path.comps].st_mode = @ \cup {bit}]

Chmodded(frame, cur_path, bit) ==
    [frame EXCEPT !.chmods = Append(@, [path |-> cur_path, bit |-> bit])]

DelRwFrame ==
    /\ UNCHANGED <<args, today, fs, dirs, files, first_index, last_index,
                   dest_dir_path, link_dir_path, included_dirs, excluded_dirs,
                   default_included, default_excluded, result, cmd, child,
                   stdout_pipe, stderr_pipe, stdout_thread, stderr_thread,
                   exit_code, removed, trace, os_env>>

(* Lines 193-206 and 232-234: the test of the exception and the set-up of   *)
(* the walk.                                                                *)
DelRwEnter ==
    /\ pc = "del_rw"
    /\ IF _is_permission_error(del_rw.exc_info)
       THEN /\ del_rw' = [del_rw EXCEPT !.target_dirs_stack = << >>,
                                        !.parent_dir_path = path_dirname(del_rw.path),
                                        !.cur_path = path_dirname(del_rw.path)]
            /\ log' = Logged("debug", "Permission denied found", del_rw.path)
            /\ pc' = "walk_up"
            /\ exc' = exc
       ELSE /\ del_rw' = [del_rw EXCEPT !.raised = "exc_info"]
            /\ log' = Logged("debug", "Unacceptable exception", del_rw.exc_info)
            /\ pc' = "del_raised"
            /\ exc' = del_rw.exc_info.type
    /\ UNCHANGED os_stat
    /\ DelRwFrame

(* The list length at which the allocation is taken to fail: more than any  *)
(* walk that ends needs.                                                    *)
MaxStack == MaxDepth + 2

(* Lines 207-209, one iteration of: while cur_path != '/'.  A relative      *)
(* path never reaches "/" (the dirname of "" is ""): the list grows until   *)
(* the allocation fails.                                                    *)
WalkUp ==
    /\ pc = "walk_up"
    /\ IF del_rw.cur_path # SlashRoot
       THEN IF Len(del_rw.target_dirs_stack) < MaxStack
            THEN /\ del_rw' = [del_rw EXCEPT
                        !.target_dirs_stack = Append(@, del_rw.cur_path),
                        !.cur_path = path_dirname(@)]
                 /\ UNCHANGED <<pc, exc>>
            ELSE /\ del_rw' = [del_rw EXCEPT !.raised = "MemoryError"]
                 /\ pc' = "del_raised"
                 /\ exc' = "MemoryError"
       ELSE /\ pc' = "walk_down"
            /\ UNCHANGED <<del_rw, exc>>
    /\ UNCHANGED <<os_stat, log>>
    /\ DelRwFrame

(* Lines 210-228, one iteration of: while target_dirs_stack. *)
WalkDown ==
    /\ pc = "walk_down"
    /\ IF del_rw.target_dirs_stack = << >>
       THEN /\ pc' = "retry"
            /\ UNCHANGED <<del_rw, os_stat, exc, log>>
       ELSE
         LET stack    == del_rw.target_dirs_stack
             cur_path == stack[Len(stack)]
             popped   == [del_rw EXCEPT
                              !.target_dirs_stack = SubSeq(stack, 1, Len(stack) - 1),
                              !.cur_path = cur_path]
             blocked  == ~access_X_OK(cur_path)
             opened   == IF blocked THEN Chmodded(popped, cur_path, "S_IXUSR")
                         ELSE popped
             stat_x   == IF blocked THEN chmod(os_stat, cur_path, "S_IXUSR") ELSE os_stat
             log_x    == IF blocked
                         THEN Logged("debug", "is not accessible. Try modifying it.",
                                     cur_path)
                         ELSE log
             log_w    == Append(log_x, [level |-> "debug",
                                        msg |-> "is not writable. Try modifying it.",
                                        what |-> cur_path])
         IN  IF blocked /\ ~is_owner(cur_path)
             THEN /\ del_rw' = [popped EXCEPT !.raised = "exc_info"]
                  /\ log' = Append(log_x, [level |-> "error",
                                           msg |-> "Unable to access",
                                           what |-> cur_path])
                  /\ pc' = "del_raised"
                  /\ exc' = del_rw.exc_info.type
                  /\ UNCHANGED os_stat
             ELSE IF /\ cur_path = del_rw.parent_dir_path
                     /\ "S_IWUSR" \notin stat_x[cur_path.comps].st_mode
             THEN IF chmod_permitted(cur_path)
                  THEN /\ del_rw' = Chmodded(opened, cur_path, "S_IWUSR")
                       /\ os_stat' = chmod(stat_x, cur_path, "S_IWUSR")
                       /\ log' = log_w
                       /\ UNCHANGED <<pc, exc>>
                  ELSE /\ del_rw' = [Chmodded(opened, cur_path, "S_IWUSR")
                                         EXCEPT !.raised = "chmod"]
                       /\ os_stat' = stat_x
                       /\ log' = log_w
                       /\ pc' = "del_raised"
                       /\ exc' = IF os_env.py_lt_32 THEN "OSError" ELSE "PermissionError"
             ELSE /\ del_rw' = opened
                  /\ os_stat' = stat_x
                  /\ log' = log_x
                  /\ UNCHANGED <<pc, exc>>
    /\ DelRwFrame

(* What the failed operation needs of the directories above it. *)
retry_possible ==
    /\ access_X_OK(del_rw.parent_dir_path)
    /\ IF os_env.euid = "root" \/ del_rw.parent_dir_path.comps = << >>
       THEN TRUE
       ELSE /\ is_owner(del_rw.parent_dir_path)
            /\ "S_IWUSR" \in os_stat[del_rw.parent_dir_path.comps].st_mode

(* Lines 229-231: function(path), once.  It succeeds only if the            *)
(* directories above allow it, and may fail again for a cause the repair    *)
(* does not touch; its error leaves _del_rw.                                *)
Retry ==
    /\ pc = "retry"
    /\ \E ok \in BOOLEAN :
         /\ ok => retry_possible
         /\ IF ok
            THEN /\ del_rw' = [del_rw EXCEPT !.retries = @ + 1]
                 /\ log' = Logged("debug", "Successfully fixed permission problem",
                                  del_rw.path)
                 /\ pc' = "del_returned"
                 /\ exc' = exc
            ELSE /\ del_rw' = [del_rw EXCEPT !.retries = @ + 1, !.raised = "function"]
                 /\ log' = log
                 /\ pc' = "del_raised"
                 /\ exc' = del_rw.exc_info.type
    /\ UNCHANGED os_stat
    /\ DelRwFrame

----------------------------------------------------------------------------
(* Initial states *)

Today == 101 * HoursPerDay + 10

BaseDirs == { Root, <<".">>, <<"mnt", "backup">> }

FsPaths == { Root, <<"mnt">>, <<"mnt", "backup">> }

Dir(w) == [kind |-> "dir", writable |-> w]
Absent == [kind |-> "absent", writable |-> FALSE]
File == [kind |-> "file", writable |-> TRUE]

Formats == { _DEFAULT_DIR_FORMAT,
             [prefix |-> "bk-", tokens |-> "%Y%m%d"],
             [prefix |-> "bk-", tokens |-> "%Y%m%d-%H"] }

(* The template the run addresses with, after the switch of lines 354-358. *)
EffectiveFormat(hourly, dir_format) ==
    IF hourly /\ dir_format = _DEFAULT_DIR_FORMAT
    THEN _DEFAULT_DIR_FORMAT_HOURLY ELSE dir_format

NamesAt(offsets, hourly, dir_format) ==
    { _get_backup_dir_name(Today - timedelta(o, hourly), dir_format) : o \in offsets }

Args(base_dir, dir_format, hourly, threshold, force, identity, user) ==
    [base_dir |-> base_dir, dir_format |-> dir_format, hourly |-> hourly,
     removal_threshold |-> threshold, force_full_backup |-> force,
     identity_file |-> identity, include |-> user.include,
     exclude |-> user.exclude]

NoUserLists == [include |-> << >>, exclude |-> << >>]

(* datetime.today() of a run started in the second hour of the day. *)
EarlyToday == 101 * HoursPerDay + 1

InitLocalsAt(now) ==
    /\ today = now
    /\ dest_dir_path = Unbound
    /\ link_dir_path = Unbound
    /\ included_dirs = Unbound
    /\ excluded_dirs = Unbound
    /\ default_included = _DEFAULT_INCLUDED_DIR
    /\ default_excluded = _DEFAULT_EXCLUDED_DIR
    /\ exc = NoExc
    /\ result = "None"
    /\ cmd = None
    /\ child = NoChild
    /\ stdout_pipe = << >>
    /\ stderr_pipe = << >>
    /\ stdout_thread = "None"
    /\ stderr_thread = "None"
    /\ exit_code = -1
    /\ log = << >>
    /\ removed = {}
    /\ trace = << >>
    /\ os_env = [euid |-> "user", py_lt_32 |-> FALSE]
    /\ os_stat = << >>
    /\ del_rw = None

InitLocals == InitLocalsAt(Today)

(* Runs over every shape of the destination root, with a short history.    *)
InitGates ==
    /\ \E base_dir \in BaseDirs, threshold \in 0..1 :
         args = Args(base_dir, _DEFAULT_DIR_FORMAT, FALSE, threshold, FALSE,
                     "None", NoUserLists)
    /\ \E rw \in BOOLEAN, parent \in {Absent, File, Dir(TRUE), Dir(FALSE)},
          base \in {Absent, File, Dir(TRUE), Dir(FALSE)} :
         /\ parent.kind # "dir" => base = Absent
         /\ normpath(args.base_dir) = Root => parent = Dir(TRUE) /\ base = Dir(TRUE)
         /\ fs = [p \in FsPaths |->
                    CASE p = Root -> Dir(rw)
                      [] p = <<"mnt">> -> parent
                      [] OTHER -> base]
    /\ \E D \in SUBSET (1..2) :
         /\ ~isdir(args.base_dir) => D = {}
         /\ dirs = NamesAt(D, FALSE, _DEFAULT_DIR_FORMAT)
    /\ files = {}

(* Runs into an existing, writable destination root, over the retention    *)
(* configurations and the snapshots present.                               *)
InitRuns ==
    /\ \E dir_format \in Formats, hourly \in BOOLEAN,
          threshold \in 0..MaxThreshold, force \in BOOLEAN,
          identity \in {"None", "present", "missing"} :
         /\ args = Args(<<"mnt", "backup">>, dir_format, hourly, threshold,
                        force, identity, NoUserLists)
         /\ \E D \in SUBSET (1..MaxThreshold + 1), F \in SUBSET (1..MaxThreshold + 1) :
              /\ Cardinality(F) <= 1
              /\ dirs = NamesAt(D, hourly, EffectiveFormat(hourly, dir_format))
              /\ files = NamesAt(F, hourly, EffectiveFormat(hourly, dir_format)) \ dirs
    /\ fs = [p \in FsPaths |-> Dir(TRUE)]

(* Runs whose retention threshold reaches the search horizon of line 412   *)
(* (--removal-threshold takes any integer), with or without a snapshot     *)
(* just beyond the threshold.                                              *)
InitHorizon ==
    /\ \E threshold \in _DEFAULT_REMOVAL_SEARCH_THRESHOLD - 1 ..
                         _DEFAULT_REMOVAL_SEARCH_THRESHOLD :
         /\ args = Args(<<"mnt", "backup">>, _DEFAULT_DIR_FORMAT, FALSE,
                        threshold, FALSE, "None", NoUserLists)
         /\ \E D \in SUBSET {threshold + 1} :
              dirs = NamesAt(D, FALSE, _DEFAULT_DIR_FORMAT)
    /\ files = {}
    /\ fs = [p \in FsPaths |-> Dir(TRUE)]

(* Hourly runs started early in the day, so that the hours of the         *)
(* retained window reach back over midnight or stay within today, over    *)
(* the templates and the snapshots present (today's included).            *)
InitEarlyHour ==
    /\ \E dir_format \in Formats, threshold \in 1..MaxThreshold :
         /\ args = Args(<<"mnt", "backup">>, dir_format, TRUE, threshold,
                        FALSE, "None", NoUserLists)
         /\ \E D \in SUBSET (0..MaxThreshold + 1) :
              dirs = { _get_backup_dir_name(EarlyToday - timedelta(o, TRUE),
                                            EffectiveFormat(TRUE, dir_format)) :
                       o \in D }
    /\ files = {}
    /\ fs = [p \in FsPaths |-> Dir(TRUE)]

Init ==
    /\ pc = "start"
    /\ first_index = 0
    /\ last_index = 0
    /\ \/ InitLocals /\ (InitGates \/ InitRuns \/ InitHorizon)
       \/ InitLocalsAt(EarlyToday) /\ InitEarlyHour

ControlThread ==
    \/ HourlyDirFormat
    \/ CheckBaseDir
    \/ ComputeDest
    \/ RemoveOldBackups
    \/ FindLinkDir
    \/ MergeLists
    \/ CallBackup
    \/ Popen
    \/ StartThreads
    \/ Finally

ChildProcess ==
    \/ ChildWriteStdout
    \/ ChildWriteStderr
    \/ ChildExit

Next == ControlThread \/ ChildProcess

Spec == Init /\ [][Next]_vars

----------------------------------------------------------------------------
(* _remove_old_backups_if_exist called on its own, over thresholds,         *)
(* horizons, granularities, templates and directory contents.               *)

SweepCall ==
    /\ pc = "sweep_call"
    /\ Sweep(first_index, last_index, "sweep_returned")
    /\ UNCHANGED <<os_env, os_stat, del_rw>>
    /\ UNCHANGED <<args, today, fs, files, first_index, last_index,
                   dest_dir_path, link_dir_path, included_dirs, excluded_dirs,
                   default_included, default_excluded, result, cmd, child,
                   stdout_pipe, stderr_pipe, stdout_thread, stderr_thread,
                   exit_code>>

InitSweep ==
    /\ pc = "sweep_call"
    /\ InitLocals
    /\ \E threshold \in 1..MaxThreshold, horizon \in 0..MaxHorizon,
          dir_format \in Formats \cup {_DEFAULT_DIR_FORMAT_HOURLY},
          hourly \in BOOLEAN :
         /\ args = Args(<<"mnt", "backup">>, dir_format, hourly, threshold,
                        FALSE, "None", NoUserLists)
         /\ first_index = threshold + 1
         /\ last_index = horizon
         /\ \E D \in SUBSET (0..MaxHorizon + 1), F \in SUBSET (0..MaxHorizon + 1) :
              /\ Cardinality(F) <= 1
              /\ dirs = NamesAt(D, hourly, dir_format)
              /\ files = NamesAt(F, hourly, dir_format) \ dirs
    /\ fs = [p \in FsPaths |-> Dir(TRUE)]

SpecSweep == InitSweep /\ [][SweepCall]_vars

----------------------------------------------------------------------------
(* _do_actual_backup called by _main_inter (line 436), over the link        *)
(* source resolved and the identity file configured.                        *)

InitBackup ==
    /\ pc = "backup"
    /\ today = Today
    /\ \E threshold \in 0..1, identity \in {"None", "present", "missing"} :
         args = Args(<<"mnt", "backup">>, _DEFAULT_DIR_FORMAT, FALSE, threshold,
                     FALSE, identity, NoUserLists)
    /\ fs = [p \in FsPaths |-> Dir(TRUE)]
    /\ \E D \in SUBSET (1..1) : dirs = NamesAt(D, FALSE, _DEFAULT_DIR_FORMAT)
    /\ files = {}
    /\ first_index = IF args.removal_threshold > 0
                     THEN args.removal_threshold + 1 ELSE 0
    /\ last_index = IF args.removal_threshold > 0
                    THEN _DEFAULT_REMOVAL_SEARCH_THRESHOLD ELSE 0
    /\ dest_dir_path = _get_backup_dir_path(Today, args.base_dir, args.dir_format)
    /\ link_dir_path = _find_link_dir(Today, args.base_dir, args.dir_format,
                                      1, args.removal_threshold, FALSE)
    /\ included_dirs = _DEFAULT_INCLUDED_DIR
    /\ excluded_dirs = _DEFAULT_EXCLUDED_DIR
    /\ default_included = _DEFAULT_INCLUDED_DIR
    /\ default_excluded = _DEFAULT_EXCLUDED_DIR
    /\ exc = NoExc
    /\ result = "None"
    /\ cmd = None
    /\ child = NoChild
    /\ stdout_pipe = << >>
    /\ stderr_pipe = << >>
    /\ stdout_thread = "None"
    /\ stderr_thread = "None"
    /\ exit_code = -1
    /\ log = << >>
    /\ removed = {}
    /\ trace = IF args.removal_threshold > 0 THEN <<"sweep", "link">> ELSE <<"link">>
    /\ os_env = [euid |-> "user", py_lt_32 |-> FALSE]
    /\ os_stat = << >>
    /\ del_rw = None

NextBackup ==
    \/ CallBackup
    \/ Popen
    \/ StartThreads
    \/ Finally
    \/ ChildProcess

SpecBackup == InitBackup /\ [][NextBackup]_vars

----------------------------------------------------------------------------
(* _main_inter called more than once in one process, each time with its    *)
(* own --include and --exclude entries.                                    *)

UserLists ==
    [include : {<< >>, <<"/home">>}, exclude : {<< >>, <<"/srv">>, <<"/opt">>}]

Runs == Len(SelectSeq(trace, LAMBDA step : step = "rerun")) + 1

(* A further call of _main_inter(args, logger) once the last one is over:  *)
(* new arguments and fresh locals; the module-level lists, the filesystem  *)
(* and the log are those the earlier calls left.                           *)
Rerun ==
    /\ pc \in {"returned", "raised"}
    /\ Runs < MaxRuns
    /\ \E user \in UserLists :
         args' = [args EXCEPT !.include = user.include, !.exclude = user.exclude]
    /\ pc' = "start"
    /\ trace' = SelectSeq(trace, LAMBDA step : step = "rerun") \o <<"rerun">>
    /\ first_index' = 0
    /\ last_index' = 0
    /\ dest_dir_path' = Unbound
    /\ link_dir_path' = Unbound
    /\ included_dirs' = Unbound
    /\ excluded_dirs' = Unbound
    /\ exc' = NoExc
    /\ result' = "None"
    /\ cmd' = None
    /\ child' = NoChild
    /\ stdout_pipe' = << >>
    /\ stderr_pipe' = << >>
    /\ stdout_thread' = "None"
    /\ stderr_thread' = "None"
    /\ exit_code' = -1
    /\ removed' = {}
    /\ UNCHANGED <<os_env, os_stat, del_rw>>
    /\ UNCHANGED <<today, fs, dirs, files, default_included, default_excluded, log>>

InitLists ==
    /\ pc = "start"
    /\ first_index = 0
    /\ last_index = 0
    /\ InitLocals
    /\ \E threshold \in 0..1, user \in UserLists :
         args = Args(<<"mnt", "backup">>, _DEFAULT_DIR_FORMAT, FALSE, threshold,
                     FALSE, "None", user)
    /\ \E D \in SUBSET (1..2) : dirs = NamesAt(D, FALSE, _DEFAULT_DIR_FORMAT)
    /\ files = {}
    /\ fs = [p \in FsPaths |-> Dir(TRUE)]

NextRuns == ControlThread \/ ChildProcess \/ Rerun

SpecRuns == InitLists /\ [][NextRuns]_vars

----------------------------------------------------------------------------
(* main from the start of a run (line 506): the call of _main_inter inside *)
(* the try block, KeyboardInterrupt arriving in the control thread, and    *)
(* the two handlers.                                                       *)

(* The code positions of the control thread inside _main_inter. *)
InMainInter == {"start", "base_dir", "dest", "sweep", "link", "lists", "backup"}

(* Those inside the try block of _do_actual_backup. *)
InTryBlock == {"popen", "thread_args"}

MainFrame ==
    /\ UNCHANGED <<args, today, fs, dirs, files, first_index, last_index,
                   dest_dir_path, link_dir_path, included_dirs, excluded_dirs,
                   default_included, default_excluded, result, cmd, child,
                   stdout_pipe, stderr_pipe, stdout_thread, stderr_thread,
                   exit_code, removed, trace, os_env, os_stat, del_rw>>

(* Lines 506-515. *)
MainStart ==
    /\ pc = "main"
    /\ log' = Logged("info", "Start running", "main")
    /\ pc' = "start"
    /\ UNCHANGED exc
    /\ MainFrame

(* SIGINT: KeyboardInterrupt is raised in the control thread wherever it   *)
(* is; inside the try block of _do_actual_backup the finally clause runs   *)
(* first.                                                                  *)
Interrupt ==
    /\ pc \in InMainInter \cup InTryBlock
    /\ exc' = "KeyboardInterrupt"
    /\ pc' = IF pc \in InTryBlock THEN "finally" ELSE "raised"
    /\ UNCHANGED log
    /\ MainFrame

(* Lines 522-534: _main_inter returned. *)
MainReturn ==
    /\ pc = "returned"
    /\ log' = log \o
              << IF result = "True"
                 THEN [level |-> "info", msg |-> "Finished running successfully",
                       what |-> "main"]
                 ELSE [level |-> "error", msg |-> "Failed running", what |-> "main"],
                 [level |-> "info", msg |-> "Elapsed", what |-> "main"] >>
    /\ pc' = "main_returned"
    /\ UNCHANGED exc
    /\ MainFrame

(* Lines 516-521: the two except clauses. *)
MainExcept ==
    /\ pc = "raised"
    /\ IF exc = "KeyboardInterrupt"
       THEN /\ log' = Logged("error", "Interrupted. Exitting.", "main")
            /\ pc' = "main_returned"
       ELSE /\ log' = Logged("error", "traceback", exc)
            /\ pc' = "main_raised"
    /\ UNCHANGED exc
    /\ MainFrame

InitMain ==
    /\ pc = "main"
    /\ first_index = 0
    /\ last_index = 0
    /\ InitLocals
    /\ InitGates

NextMain ==
    \/ MainStart
    \/ ControlThread
    \/ ChildProcess
    \/ Interrupt
    \/ MainReturn
    \/ MainExcept

SpecMain == InitMain /\ [][NextMain]_vars

----------------------------------------------------------------------------
(* _del_rw called by shutil.rmtree on its own, over the failed path, the    *)
(* error, the owners and mode bits of the directories above the path, the   *)
(* effective user and the Python version.                                   *)

ChainNames == <<"mnt", "backup", "node-20200101", "etc">>

Uids == {"user", "root"}

(* The errors rmtree hands over: permission denied, or another OSError. *)
Errors(py_lt_32) ==
    { [type |-> IF py_lt_32 THEN "OSError" ELSE "PermissionError", errno |-> EACCES],
      [type |-> "OSError", errno |-> ENOTEMPTY] }

(* Owner and mode bits of one directory; of the execute bits, the one that  *)
(* does not apply to the owner's class is left out (for the other class).   *)
StatResults ==
    { r \in [st_uid : Uids, st_mode : SUBSET {"S_IXUSR", "S_IWUSR", "S_IXOTH"}] :
        IF r.st_uid = "user" THEN "S_IXOTH" \notin r.st_mode
        ELSE "S_IXUSR" \in r.st_mode }

InitDelRw ==
    /\ pc = "del_rw"
    /\ \E depth \in 0..MaxDepth, absolute \in BOOLEAN, euid \in Uids,
          py_lt_32 \in BOOLEAN :
         /\ os_env = [euid |-> euid, py_lt_32 |-> py_lt_32]
         /\ \E e \in Errors(py_lt_32) :
              del_rw = [path |-> [absolute |-> absolute,
                                  comps |-> SubSeq(ChainNames, 1, depth) \o <<"f">>],
                        exc_info |-> e,
                        target_dirs_stack |-> << >>,
                        parent_dir_path |-> None,
                        cur_path |-> None,
                        chmods |-> << >>,
                        retries |-> 0,
                        raised |-> "none"]
         /\ os_stat \in [{SubSeq(ChainNames, 1, k) : k \in 1..depth} -> StatResults]
    /\ args = Args(<<"mnt", "backup">>, _DEFAULT_DIR_FORMAT, FALSE, 1, FALSE,
                   "None", NoUserLists)
    /\ today = Today
    /\ fs = [p \in FsPaths |-> Dir(TRUE)]
    /\ dirs = {}
    /\ files = {}
    /\ first_index = 0
    /\ last_index = 0
    /\ dest_dir_path = Unbound
    /\ link_dir_path = Unbound
    /\ included_dirs = Unbound
    /\ excluded_dirs = Unbound
    /\ default_included = _DEFAULT_INCLUDED_DIR
    /\ default_excluded = _DEFAULT_EXCLUDED_DIR
    /\ exc = NoExc
    /\ result = "None"
    /\ cmd = None
    /\ child = NoChild
    /\ stdout_pipe = << >>
    /\ stderr_pipe = << >>
    /\ stdout_thread = "None"
    /\ stderr_thread = "None"
    /\ exit_code = -1
    /\ log = << >>
    /\ removed = {}
    /\ trace = << >>

NextDelRw ==
    \/ DelRwEnter
    \/ WalkUp
    \/ WalkDown
    \/ Retry

SpecDelRw == InitDelRw /\ [][NextDelRw]_vars

----------------------------------------------------------------------------
(* Properties *)

NameAt(i) == _get_backup_dir_name(today - timedelta(i, args.hourly), args.dir_format)

PathAt(i) == _get_backup_dir_path(today - timedelta(i, args.hourly),
                                  args.base_dir, args.dir_format)

Occurs(step) == \E k \in 1..Len(trace) : trace[k] = step

Before(a, b) == \E j, k \in 1..Len(trace) : j < k /\ trace[j] = a /\ trace[k] = b

Over == pc \in {"returned", "raised"}

Warned(name) ==
    \E k \in 1..Len(log) : /\ log[k].level = "warn"
                           /\ log[k].msg = "is not a directory. Ignoring."
                           /\ log[k].what = name

SweptNames == { NameAt(i) : i \in first_index..last_index }

\* C1: when _remove_old_backups_if_exist(first, last) returns without error,
\* no directory is left at an address of an offset in [first, last], every
\* stray file at such an address is still there and was warned about, and
\* only directories at such addresses were removed (a directory addressed
\* only from [0, threshold] or from beyond the horizon is still there).
C1_SweepResult ==
    pc = "sweep_returned" =>
        /\ SweptNames \cap dirs = {}
        /\ \A n \in SweptNames \cap files : Warned(n)
        /\ removed \subseteq SweptNames
        /\ \A k \in 1..Len(log) : log[k].what \in SweptNames \cap files

\* C1 witness: threshold 2 and horizon 5 over directories at offsets
\* {1, 3, 5, 6} and a stray file at offset 4: 3 and 5 are removed (5 after
\* the file was skipped), 1 and 6 are kept.
C1_Witness ==
    /\ pc = "sweep_returned"
    /\ ~args.hourly
    /\ first_index = 3
    /\ last_index = 5
    /\ removed = {NameAt(3), NameAt(5)}
    /\ dirs = {NameAt(1), NameAt(6)}
    /\ files = {NameAt(4)}
    /\ Warned(NameAt(4))

WindowHits == { i \in 1..args.removal_threshold : NameAt(i) \in dirs }

Nearest == CHOOSE i \in WindowHits : \A j \in WindowHits : i <= j

\* C2: _find_link_dir(1, threshold) returns the address of the smallest
\* offset in [1, threshold] that is an existing directory, and None exactly
\* when there is no such offset.
C2_NearestFirst ==
    Occurs("link") =>
        link_dir_path = IF WindowHits = {} THEN None ELSE PathAt(Nearest)

\* C2 witness: a stray file at offset 1 is passed over and the directory at
\* offset 2 is returned.
C2_Witness ==
    /\ Occurs("link")
    /\ NameAt(1) \in files
    /\ NameAt(2) \in dirs
    /\ NameAt(1) # NameAt(2)
    /\ link_dir_path = PathAt(2)

\* C3 (as stated): a run whose copy-engine process exited with code c
\* returns True when c is 0 or 23 and False otherwise, and does not raise.
C3_Outcome ==
    (Over /\ child.state = "exited") =>
        /\ pc = "returned"
        /\ result = IF child.code \in {0, 23} THEN "True" ELSE "False"

\* C4 (as stated): once the process is spawned no exception is raised, the
\* two drain threads are started and the call returns the process's code.
C4_RawExitCode ==
    Occurs("spawn") =>
        /\ exc = NoExc
        /\ pc = "returned" => /\ stdout_thread # "None"
                              /\ stderr_thread # "None"
                              /\ exit_code = child.code

\* C5 (as stated): the child is never blocked for ever: while it runs,
\* the child, a drain thread or the control thread can still take a step.
C5_NoPipeDeadlock ==
    child.state = "running" => ENABLED (NextBackup \/ DrainAndWait)

LinesLogged(prefix) == SelectSeq(log, LAMBDA e : e.msg = prefix)

\* C6 (as stated): when the call is over, every line the child wrote to a
\* stream has been logged once, in order, with the stream's prefix.
C6_NoOutputLost ==
    (Occurs("spawn") /\ Over) =>
        /\ Len(LinesLogged("(stdout): ")) = child.nout
        /\ Len(LinesLogged("(stderr): ")) = child.nerr
        /\ \A k \in 1..child.nout : LinesLogged("(stdout): ")[k].what = k
        /\ \A k \in 1..child.nerr : LinesLogged("(stderr): ")[k].what = k

\* C7 (as stated): when a call that spawned the child is over, by return or
\* by exception, both drain threads were created, started and joined.
C7_JoinOnEveryExit ==
    (Occurs("spawn") /\ Over) =>
        /\ stdout_thread = "finished"
        /\ stderr_thread = "finished"

\* C8: the sweep (when threshold > 0) is over before link resolution, link
\* resolution is over before the spawn, and the link source handed to the
\* copy engine is a directory at spawn time that the sweep did not remove.
C8_StepOrdering ==
    /\ (Occurs("link") /\ args.removal_threshold > 0) => Before("sweep", "link")
    /\ ~Before("link", "sweep")
    /\ Occurs("spawn") => Before("link", "spawn")
    /\ (Occurs("spawn") /\ cmd.link_dest # None) =>
           /\ path_isdir(cmd.link_dest)
           /\ cmd.link_dest.name \notin removed

\* C8 witness: a run that swept a directory away, resolved a link source
\* and spawned the copy engine with it.
C8_Witness ==
    /\ Occurs("spawn")
    /\ args.removal_threshold > 0
    /\ removed # {}
    /\ cmd.link_dest # None
    /\ trace = <<"sweep", "link", "spawn">>

\* C9 (as stated): a destination root that is the filesystem root is
\* rejected: the run returns False and creates, removes, resolves and
\* spawns nothing.
C9_RootRejected ==
    normpath(args.base_dir) = Root =>
        /\ pc \in {"start", "base_dir", "returned"}
        /\ pc = "returned" => result = "False"
        /\ trace = << >>
        /\ removed = {}

PastGates == pc \in {"dest", "sweep", "link", "lists", "backup", "popen",
                     "thread_args", "finally"} \/ dest_dir_path # Unbound

\* C10 (as stated): a run that goes on to the sweep, link resolution or the
\* copy step has an existing, writable directory as destination root (said
\* here of the destination roots other than the filesystem root).
C10_RootGate ==
    (PastGates /\ normpath(args.base_dir) # Root) =>
        /\ isdir(args.base_dir)
        /\ access_W_OK(args.base_dir)

\* C18 (as stated): in a run with threshold > 0 whose sweep returned, the
\* horizon of the sweep is strictly greater than the threshold and no
\* directory is left at the address of offset threshold + 1.
C18_HorizonAboveThreshold ==
    (Occurs("sweep") /\ exc # "PermissionError") =>
        /\ last_index > args.removal_threshold
        /\ NameAt(args.removal_threshold + 1) \notin dirs

HourWarned ==
    \E k \in 1..Len(log) : /\ log[k].level = "warn"
                           /\ log[k].msg = "dir_format does not contain %H"

\* C19: the first step of a run replaces the built-in daily template by
\* the built-in hourly one exactly when hourly mode is on, leaves any other
\* template as supplied (with a warning, and going on to the next step,
\* when hourly mode is on and the custom template has no hour token), no
\* later step changes the template, and the destination, the link source
\* and the swept names are addresses under the template so selected.
C19_TemplateSelection ==
    /\ [](/\ (pc # "start" /\ args.hourly) => args.dir_format # _DEFAULT_DIR_FORMAT
          /\ dest_dir_path # Unbound => dest_dir_path = PathAt(0)
          /\ link_dir_path \notin {Unbound, None} =>
                 \E i \in 1..args.removal_threshold : link_dir_path = PathAt(i)
          /\ \A n \in removed : \E i \in first_index..last_index : n = NameAt(i)
          /\ HourWarned <=> /\ pc # "start"
                            /\ args.hourly
                            /\ ~has_hour_token(args.dir_format))
    /\ [][/\ args'.dir_format =
                IF pc = "start" /\ args.hourly /\ args.dir_format = _DEFAULT_DIR_FORMAT
                THEN _DEFAULT_DIR_FORMAT_HOURLY
                ELSE args.dir_format
          /\ pc = "start" => pc' = "base_dir"]_vars

\* C19 witness: an hourly run started with the built-in daily template has
\* an hour-stamped destination and spawned the copy engine with a link
\* source found under the hourly template.
C19_Witness ==
    /\ args.hourly
    /\ args.dir_format = _DEFAULT_DIR_FORMAT_HOURLY
    /\ dest_dir_path # Unbound
    /\ dest_dir_path.name.hour = today % HoursPerDay
    /\ Occurs("spawn")
    /\ cmd.link_dest = PathAt(1)

DelRwOver == pc \in {"del_returned", "del_raised"}

Owned(comps) == os_stat[comps].st_uid = os_env.euid

IsPrefix(a, b) == Len(a) <= Len(b) /\ SubSeq(b, 1, Len(a)) = a

\* A directory the process cannot traverse and does not own.
Blocker(comps) ==
    /\ os_env.euid # "root"
    /\ ~Owned(comps)
    /\ "S_IXOTH" \notin os_stat[comps].st_mode

\* The walk from the root side has come to the directory.
Met(comps) ==
    /\ pc \in {"walk_down", "retry", "del_returned", "del_raised"}
    /\ _is_permission_error(del_rw.exc_info)
    /\ del_rw.path.absolute
    /\ \A k \in 1..Len(del_rw.target_dirs_stack) :
           del_rw.target_dirs_stack[k].comps # comps

\* C12: once the walk has come to an ancestor the process cannot traverse
\* and does not own, _del_rw has raised the error it was handed, has not
\* retried the failed operation, and has attempted no chmod on that
\* directory or on any directory below it.
C12_OwnershipGate ==
    \A c \in DOMAIN os_stat :
        (Blocker(c) /\ Met(c)) =>
            /\ pc = "del_raised"
            /\ del_rw.raised = "exc_info"
            /\ exc = del_rw.exc_info.type
            /\ del_rw.retries = 0
            /\ \A k \in 1..Len(del_rw.chmods) :
                   ~IsPrefix(c, del_rw.chmods[k].path.comps)

\* C12 witness: /mnt is owned and was given execute permission, then
\* /mnt/backup, not owned and not traversable, ended the walk.
C12_Witness ==
    /\ pc = "del_raised"
    /\ del_rw.raised = "exc_info"
    /\ del_rw.path.comps = <<"mnt", "backup", "f">>
    /\ del_rw.cur_path = [absolute |-> TRUE, comps |-> <<"mnt", "backup">>]
    /\ Blocker(<<"mnt", "backup">>)
    /\ Len(del_rw.chmods) = 1
    /\ del_rw.chmods[1] = [path |-> [absolute |-> TRUE, comps |-> <<"mnt">>],
                           bit |-> "S_IXUSR"]
    /\ del_rw.retries = 0

NoBlocker == \A c \in DOMAIN os_stat : ~Blocker(c)

ParentWritable ==
    \/ Len(del_rw.path.comps) = 1
    \/ "S_IWUSR" \in os_stat[SubSeq(del_rw.path.comps, 1,
                                     Len(del_rw.path.comps) - 1)].st_mode

\* C13 (as stated): when _del_rw is over, the failed operation was retried
\* once if the error was permission-denied and every needed grant succeeded
\* and not at all otherwise; a failed retry ended the call with no later
\* repair; an error other than permission-denied was re-raised with no
\* mode bit changed.
C13_RetryCount ==
    DelRwOver =>
        /\ del_rw.retries =
               IF del_rw.exc_info.errno = EACCES /\ NoBlocker /\ ParentWritable
               THEN 1 ELSE 0
        /\ del_rw.raised = "function" => pc = "del_raised"
        /\ del_rw.exc_info.errno # EACCES =>
               /\ del_rw.chmods = << >>
               /\ del_rw.raised = "exc_info"

\* C20 (as stated): write permission is only ever given to the immediate
\* parent and only when the process owns it; with a parent that is not
\* owned the step attempts no chmod, raises nothing, and the retry is made.
C20_WriteStep ==
    /\ \A k \in 1..Len(del_rw.chmods) :
           del_rw.chmods[k].bit = "S_IWUSR" =>
               /\ del_rw.chmods[k].path = del_rw.parent_dir_path
               /\ Owned(del_rw.chmods[k].path.comps)
    /\ del_rw # None => del_rw.raised # "chmod"
    /\ (DelRwOver /\ del_rw.raised \notin {"exc_info", "MemoryError"}) =>
           del_rw.retries = 1

\* C16 (as stated): in every run of a sequence of runs in one process, the
\* include and exclude lists handed to the copy engine are the built-in
\* lists followed by that run's own entries, and the built-in lists are
\* never changed.
C16_ListsPerRun ==
    /\ cmd # None =>
           /\ cmd.include = _DEFAULT_INCLUDED_DIR \o args.include
           /\ cmd.exclude = _DEFAULT_EXCLUDED_DIR \o args.exclude
    /\ default_included = _DEFAULT_INCLUDED_DIR
    /\ default_excluded = _DEFAULT_EXCLUDED_DIR

Determinations ==
    SelectSeq(log, LAMBDA e : e.msg \in {"Finished running successfully",
                                         "Failed running"})

Summaries == SelectSeq(log, LAMBDA e : e.msg = "Elapsed")

\* C17 (as stated): an execution of main that started a run has, when it
\* is over, logged exactly one success-or-failure determination and an
\* elapsed-time summary, and an interrupt was not propagated.
C17_OneDetermination ==
    /\ pc \in {"main_returned", "main_raised"} =>
           /\ Len(Determinations) = 1
           /\ Len(Summaries) = 1
    /\ pc = "main_raised" => exc # "KeyboardInterrupt"

\* C21 (as stated): no directory that is the address of an offset in
\* [0, threshold], today's destination included, is removed by the sweep.
C21_WindowUntouched ==
    \A i \in 0..args.removal_threshold : NameAt(i) \notin removed

\* C22 (as stated): a command handed to the copy engine with a
\* link-destination flag names a link source other than its destination.
C22_LinkNotDestination ==
    (cmd # None /\ cmd.link_dest # None) => cmd.link_dest # cmd.dest

\* C11 (as stated): a run with the forced-full-backup flag set skips link
\* resolution, hands the copy engine a command with no link-destination
\* flag, and raises no error on account of the skipped link resolution.
C11_ForcedFullBackup ==
    args.force_full_backup =>
        /\ ~Occurs("link")
        /\ cmd # None => cmd.link_dest = None
        /\ exc # "UnboundLocalError"

\* C14 (as stated): a deletion failure that PermissionRepair re-raised
\* inside the retention sweep does not end the run by exception (said here
\* of the destination roots other than the filesystem root).
C14_DeletionFailureLocal ==
    (exc = "PermissionError" /\ normpath(args.base_dir) # Root) => pc # "raised"

\* C15: with an identity file configured and missing, no copy-engine
\* process is spawned, no drain thread is created, no command is run, and
\* the call ends by RuntimeError, never with a success result.
C15_MissingIdentityFailsFast ==
    (args.identity_file = "missing") =>
        /\ ~Occurs("spawn")
        /\ child = NoChild
        /\ stdout_thread = "None" /\ stderr_thread = "None"
        /\ cmd = None
        /\ pc \notin {"popen", "thread_args", "wait", "finally", "returned"}
        /\ result # "True"
        /\ pc = "raised" => exc = "RuntimeError"

\* C15 witness: the call was made with a missing identity file and ended
\* by RuntimeError with no process spawned.
C15_Witness ==
    /\ args.identity_file = "missing"
    /\ pc = "raised"
    /\ exc = "RuntimeError"
    /\ child = NoChild

====
